---- MODULE Spec2Model ----
(***************************************************************************)
(* Triangle mesh model of the tessellation editor.                         *)
(*                                                                         *)
(* The repository holds two generations of the mesh code:                  *)
(*   - js/app.js: the WebGL generation.  Module-level globals, triangles   *)
(*     addressed by index, vertices as flat arrays.                        *)
(*   - js/TriangleManager.js + js/Triangle.js: the THREE.js generation.    *)
(*     A TriangleManager object, triangles addressed by reference.         *)
(* Both are modelled.  SpecApp runs the first, SpecMgr the second, Spec    *)
(* either of them (one generation per behaviour).                          *)
(*                                                                         *)
(* Geometry.  Every coordinate the code computes from the seed has the     *)
(* form  x = a * u,  y = b * u / sqrt(3)  with a, b rational, where u is   *)
(* the seed's half side: in  x3 = mid + (dy/len) * (len*sqrt(3)/2)  the    *)
(* edge length cancels.  A point is the integer pair <<a, b>> in units of  *)
(* u/Scale and u/(Scale*sqrt(3)).  The arithmetic is that of the reals:    *)
(* IEEE rounding (1e-16) is far below every tolerance of the code (1e-3,   *)
(* 1e-4).  app.js writes the seed with the three-decimal constants 0.577   *)
(* and 1.155 for 1/sqrt(3) and 2/sqrt(3); the model takes the exact        *)
(* values (the difference, 5e-5, is below the 1e-3 tolerance of app.js).   *)
(*                                                                         *)
(* Left out: what only feeds the drawing (colors, the instance* buffers,   *)
(* THREE.js meshes and materials, showColors and the 'c' key) and the 'd'  *)
(* key, which only logs.                                                   *)
(***************************************************************************)
EXTENDS Integers, Sequences, FiniteSets, TLC

\* ------------------------------------------------------------------ bounds
\* Capacity of the mesh.  The source sets 10000; the model checks a small one.
MAX_TRIANGLES == 3

\* Lattice refinement: the seed's half side is Scale lattice units.  Each
\* midpoint divides by 2 and each centroid by 3; 2^3 * 3^4 keeps every
\* division exact for the meshes within the bound.
Scale == 2 * 2 * 2 * 3 * 3 * 3 * 3

\* The null reference (null / undefined / -1 in the source).
Null == 0 - 1

\* Edge indices of a triangle, and the edge arguments a caller can pass:
\* 3 stands for every index outside 0..2.
Sides == 0..2
SideArgs == 0..3

\* Triangle index arguments: MAX_TRIANGLES is never a valid index.
IndexArgs == 0..MAX_TRIANGLES

\* ---------------------------------------------------------------- geometry
Abs(n) == IF n < 0 THEN 0 - n ELSE n

RECURSIVE Bisect(_, _, _)
Bisect(lo, hi, n) ==
    IF hi - lo <= 1 THEN lo
    ELSE LET mid == (lo + hi) \div 2
         IN IF mid * mid <= n THEN Bisect(mid, hi, n) ELSE Bisect(lo, mid, n)

\* floor(sqrt(n)) for 0 <= n < 2^30
Isqrt(n) == Bisect(0, 32768, n)

\* Squared distance of two points, in units of (u/Scale)^2 / 3.
Dist2(p, q) == 3 * (q[1] - p[1]) * (q[1] - p[1]) + (q[2] - p[2]) * (q[2] - p[2])

\* Dot product of two vectors, in the same units.
Dot(v, w) == 3 * v[1] * w[1] + v[2] * w[2]

Midpoint(p, q) == <<(p[1] + q[1]) \div 2, (p[2] + q[2]) \div 2>>

\* The vector (-dy, dx) * sqrt(3)/2 for the edge vector (dx, dy) = q - p:
\* the unit normal to the left of p -> q, scaled to the equilateral height.
LeftHeight(p, q) == <<(0 - (q[2] - p[2])) \div 2, (3 * (q[1] - p[1])) \div 2>>

\* The vector (dy, -dx) * sqrt(3)/2: the same to the right of p -> q.
RightHeight(p, q) == <<(q[2] - p[2]) \div 2, (0 - 3 * (q[1] - p[1])) \div 2>>

Add(p, v) == <<p[1] + v[1], p[2] + v[2]>>
Sub(p, q) == <<p[1] - q[1], p[2] - q[2]>>
Neg(v) == <<0 - v[1], 0 - v[2]>>

\* The point (NaN, NaN): what 0 / 0 gives for the normal of a zero-length
\* edge.  It has no coordinates: arithmetic on it is an evaluation error.
NaN == <<>>

\* Arithmetic mean of three vertices (NaN when one of them is).
Centroid(vs) ==
    IF \E i \in 1..3 : vs[i] = NaN THEN NaN
    ELSE <<(vs[1][1] + vs[2][1] + vs[3][1]) \div 3, (vs[1][2] + vs[2][2] + vs[3][2]) \div 3>>

\* |x1 - x2| < eps and |y1 - y2| < eps, for eps = u / k (k = u / eps).
\* |da| * u/Scale < u/k            <=>  k * |da| < Scale
\* |db| * u/(Scale*sqrt 3) < u/k   <=>  (k * |db|)^2 < 3 * Scale^2
\* A comparison with NaN is false.
CoordsWithin(p, q, k) ==
    /\ p # NaN /\ q # NaN
    /\ k * Abs(p[1] - q[1]) < Scale
    /\ k * Abs(p[2] - q[2]) < 2 * Scale
    /\ (k * Abs(p[2] - q[2])) * (k * Abs(p[2] - q[2])) < 3 * Scale * Scale

\* --------------------------------------------------- js/app.js: Triangle
\* A fresh relationship array ([null, null, null], {}): no link on any side
\* in SideArgs.
NoLinks == (0 :> Null @@ 1 :> Null @@ 2 :> Null @@ 3 :> Null)

\* new Triangle(id, vertices, parent, parentSide).  References to triangles
\* are held as indices into `triangles` (no triangle is ever removed, so an
\* object and its index name each other).  The relationship arrays are
\* JavaScript arrays: a write at index 3 is stored like any other.
AppTriangle(id, vertices, parent, parentSide) ==
    [ id             |-> id,
      vertices       |-> vertices,
      parent         |-> parent,
      parentSide     |-> parentSide,
      children       |-> NoLinks,
      neighbors      |-> NoLinks,
      innerTriangles |-> NoLinks,
      outerTriangles |-> NoLinks,
      center         |-> Centroid(vertices),
      selected       |-> FALSE,
      focused        |-> FALSE ]

\* Triangle.getSide(index): the two endpoints of a side; every index other
\* than 0 and 1 takes the else branch (third vertex, first vertex).
getSide(t, index) ==
    IF index = 0 THEN <<t.vertices[1], t.vertices[2]>>
    ELSE IF index = 1 THEN <<t.vertices[2], t.vertices[3]>>
    ELSE <<t.vertices[3], t.vertices[1]>>

\* triangles[i] of the source: the record at index i, for a valid i.
Valid(S, i) == i >= 0 /\ i < Len(S.triangles)

\* --------------------------------------------- js/app.js: the operations
\* Each operation takes the globals as a record S and returns the globals
\* after the call (and its return value where it has one).

\* Faulty variant of focusTriangle: the flags move, the global
\* focusedTriangleIndex is never assigned.
focusTriangleFlagOnly(S, index) ==
    LET cleared ==
            IF S.focusedTriangleIndex >= 0 /\ S.focusedTriangleIndex < S.triangleCount
            THEN [S EXCEPT !.triangles[S.focusedTriangleIndex + 1].focused = FALSE]
            ELSE S
    IN IF index >= 0 /\ index < S.triangleCount
       THEN [cleared EXCEPT !.triangles[index + 1].focused = TRUE,
                            !.dataChanged = TRUE]
       ELSE cleared

focusTriangle(S, index) ==
    LET cleared ==
            IF S.focusedTriangleIndex >= 0 /\ S.focusedTriangleIndex < S.triangleCount
            THEN [S EXCEPT !.triangles[S.focusedTriangleIndex + 1].focused = FALSE]
            ELSE S
        moved == [cleared EXCEPT !.focusedTriangleIndex = index]
    IN IF index >= 0 /\ index < S.triangleCount
       THEN [moved EXCEPT !.triangles[index + 1].focused = TRUE,
                          !.dataChanged = TRUE]
       ELSE moved

\* selectTriangle(index, clearExisting = true): every caller passes one
\* argument.
selectTriangle(S, index) ==
    LET cleared ==
            [S EXCEPT !.triangles =
                [i \in 1..Len(S.triangles) |->
                    IF i <= S.triangleCount
                    THEN [S.triangles[i] EXCEPT !.selected = FALSE]
                    ELSE S.triangles[i]]]
    IN IF index >= 0 /\ index < S.triangleCount
       THEN [cleared EXCEPT !.triangles[index + 1].selected = TRUE,
                            !.selectedTriangleIndex = index,
                            !.dataChanged = TRUE]
       ELSE cleared

\* The lowest index of a selected triangle, or -1.
FirstSelected(trs, count) ==
    IF \E i \in 1..count : trs[i].selected
    THEN (CHOOSE i \in 1..count :
            trs[i].selected /\ \A j \in 1..(i - 1) : ~trs[j].selected) - 1
    ELSE Null

\* Faulty variant of toggleSelectTriangle: the flag is flipped but the data
\* is not marked as changed.
toggleSelectTriangleClean(S, index) ==
    IF index >= 0 /\ index < S.triangleCount
    THEN LET now == ~S.triangles[index + 1].selected
         IN [S EXCEPT !.triangles[index + 1].selected = now,
                      !.selectedTriangleIndex = IF now THEN index ELSE Null]
    ELSE S

\* Faulty variant of toggleSelectTriangle: selecting goes through the
\* clearing path of selectTriangle.
toggleSelectTriangleClearing(S, index) ==
    IF index >= 0 /\ index < S.triangleCount
    THEN IF S.triangles[index + 1].selected
         THEN [S EXCEPT !.triangles[index + 1].selected = FALSE,
                        !.selectedTriangleIndex = Null,
                        !.dataChanged = TRUE]
         ELSE selectTriangle(S, index)
    ELSE S

toggleSelectTriangle(S, index) ==
    IF index >= 0 /\ index < S.triangleCount
    THEN LET now == ~S.triangles[index + 1].selected
             toggled == [S EXCEPT !.triangles[index + 1].selected = now]
         IN [toggled EXCEPT
                !.selectedTriangleIndex =
                    IF now THEN index
                    ELSE IF S.selectedTriangleIndex = index
                         THEN FirstSelected(toggled.triangles, S.triangleCount)
                         ELSE S.selectedTriangleIndex,
                !.dataChanged = TRUE]
    ELSE S

\* Faulty variant of addTriangle: the capacity test is > instead of >=.
addTriangleLateCheck(S, vertices, parent, parentSide) ==
    IF S.triangleCount > MAX_TRIANGLES
    THEN [st |-> S, ret |-> Null]
    ELSE LET triangle == AppTriangle(S.nextTriangleId, vertices, parent, parentSide)
             pushed == [S EXCEPT !.nextTriangleId = S.nextTriangleId + 1,
                                 !.triangles = Append(S.triangles, triangle)]
             linked == IF parent # Null /\ parentSide >= 0
                       THEN [pushed EXCEPT
                               !.triangles[parent + 1].children[parentSide] =
                                   Len(pushed.triangles) - 1]
                       ELSE pushed
             focused == IF S.triangleCount = 0 THEN focusTriangle(linked, 0) ELSE linked
         IN [st  |-> [focused EXCEPT !.triangleCount = S.triangleCount + 1,
                                     !.dataChanged = TRUE],
             ret |-> Len(pushed.triangles) - 1]

\* Faulty variant of addTriangle: the id is taken before the capacity test.
addTriangleEagerId(S, vertices, parent, parentSide) ==
    IF S.triangleCount >= MAX_TRIANGLES
    THEN [st |-> [S EXCEPT !.nextTriangleId = S.nextTriangleId + 1], ret |-> Null]
    ELSE addTriangleLateCheck(S, vertices, parent, parentSide)

\* addTriangle(vertices, parent, parentSide): [st, ret], ret the index of the
\* new triangle or Null.
addTriangle(S, vertices, parent, parentSide) ==
    IF S.triangleCount >= MAX_TRIANGLES
    THEN [st |-> S, ret |-> Null]
    ELSE LET triangle == AppTriangle(S.nextTriangleId, vertices, parent, parentSide)
             pushed == [S EXCEPT !.nextTriangleId = S.nextTriangleId + 1,
                                 !.triangles = Append(S.triangles, triangle)]
             linked == IF parent # Null /\ parentSide >= 0
                       THEN [pushed EXCEPT
                               !.triangles[parent + 1].children[parentSide] =
                                   Len(pushed.triangles) - 1]
                       ELSE pushed
             focused == IF S.triangleCount = 0 THEN focusTriangle(linked, 0) ELSE linked
         IN [st  |-> [focused EXCEPT !.triangleCount = S.triangleCount + 1,
                                     !.dataChanged = TRUE],
             ret |-> Len(pushed.triangles) - 1]

\* u / 0.001 for u = 0.5 * TRIANGLE_SIZE = 0.15: the tolerance of the
\* reciprocal-side match, as a fraction of the seed's half side.
AppTolerance == 150

\* matchForward || matchReverse of createAdjacentTriangle.
SideMatches(newSide, origSide) ==
    \/ /\ CoordsWithin(newSide[1], origSide[1], AppTolerance)
       /\ CoordsWithin(newSide[2], origSide[2], AppTolerance)
    \/ /\ CoordsWithin(newSide[1], origSide[2], AppTolerance)
       /\ CoordsWithin(newSide[2], origSide[1], AppTolerance)

\* The third vertex createAdjacentTriangle computes: the perpendicular
\* (dy, -dx)/length, negated when its dot product with midpoint -> center is
\* positive, times the equilateral height, from the midpoint.  For a
\* zero-length side, length is 0 and perp is 0 / 0.
AdjacentThirdVertex(triangle, side) ==
    LET sv       == getSide(triangle, side)
        mid      == Midpoint(sv[1], sv[2])
        toCenter == Sub(triangle.center, mid)
        perp     == RightHeight(sv[1], sv[2])
    IN IF sv[1] = sv[2] THEN NaN
       ELSE IF Dot(perp, toCenter) > 0 THEN Add(mid, Neg(perp)) ELSE Add(mid, perp)

\* The reciprocal loop of createAdjacentTriangle: the first side of the new
\* triangle that matches the shared side gets the original as neighbor.
SetReciprocal(S, newIndex, triangleIndex, side) ==
    LET orig    == getSide(S.triangles[triangleIndex + 1], side)
        matches == {ns \in Sides : SideMatches(getSide(S.triangles[newIndex + 1], ns), orig)}
    IN IF matches = {} THEN S
       ELSE LET newSide == CHOOSE ns \in matches : \A m \in matches : ns <= m
            IN [S EXCEPT !.triangles[newIndex + 1].neighbors[newSide] = triangleIndex]

createAdjacentTriangle(S, triangleIndex, side) ==
    IF ~Valid(S, triangleIndex) THEN [st |-> S, ret |-> Null]
    ELSE LET triangle    == S.triangles[triangleIndex + 1]
             sv          == getSide(triangle, side)
             newVertices == <<sv[1], sv[2], AdjacentThirdVertex(triangle, side)>>
             added       == addTriangle(S, newVertices, triangleIndex, side)
         IN IF added.ret = Null THEN added
            ELSE LET linked ==
                         [added.st EXCEPT
                            !.triangles[triangleIndex + 1].neighbors[side] = added.ret]
                     both == SetReciprocal(linked, added.ret, triangleIndex, side)
                 IN [st  |-> selectTriangle(focusTriangle(both, added.ret), added.ret),
                     ret |-> added.ret]

\* Faulty variant of createInnerTriangle: the new triangle is selected but
\* the focus is not moved to it.
createInnerTriangleUnfocused(S, triangleIndex, side) ==
    IF ~Valid(S, triangleIndex) THEN [st |-> S, ret |-> Null]
    ELSE LET triangle    == S.triangles[triangleIndex + 1]
             sv          == getSide(triangle, side)
             newVertices == <<sv[1], sv[2], triangle.center>>
             added       == addTriangle(S, newVertices, triangleIndex, side)
         IN IF added.ret = Null THEN added
            ELSE LET linked ==
                         [added.st EXCEPT
                            !.triangles[triangleIndex + 1].innerTriangles[side] = added.ret]
                 IN [st |-> selectTriangle(linked, added.ret), ret |-> added.ret]

createInnerTriangle(S, triangleIndex, side) ==
    IF ~Valid(S, triangleIndex) THEN [st |-> S, ret |-> Null]
    ELSE LET triangle    == S.triangles[triangleIndex + 1]
             sv          == getSide(triangle, side)
             newVertices == <<sv[1], sv[2], triangle.center>>
             added       == addTriangle(S, newVertices, triangleIndex, side)
         IN IF added.ret = Null THEN added
            ELSE LET linked ==
                         [added.st EXCEPT
                            !.triangles[triangleIndex + 1].innerTriangles[side] = added.ret]
                 IN [st  |-> selectTriangle(focusTriangle(linked, added.ret), added.ret),
                     ret |-> added.ret]

createOuterTriangle(S, triangleIndex, side) ==
    IF ~Valid(S, triangleIndex) THEN [st |-> S, ret |-> Null]
    ELSE LET triangle    == S.triangles[triangleIndex + 1]
             sv          == getSide(triangle, side)
             newVertex   == IF sv[1] = sv[2] THEN NaN
                            ELSE Add(Midpoint(sv[1], sv[2]), LeftHeight(sv[1], sv[2]))
             newVertices == <<sv[1], sv[2], newVertex>>
             added       == addTriangle(S, newVertices, triangleIndex, side)
         IN IF added.ret = Null THEN added
            ELSE LET linked ==
                         [added.st EXCEPT
                            !.triangles[triangleIndex + 1].outerTriangles[side] = added.ret]
                 IN [st  |-> selectTriangle(focusTriangle(linked, added.ret), added.ret),
                     ret |-> added.ret]

\* The keydown handler's target: index = focusedTriangleIndex >= 0 ?
\* focusedTriangleIndex : 0.
HandlerIndex(S) == IF S.focusedTriangleIndex >= 0 THEN S.focusedTriangleIndex ELSE 0

\* Faulty variant of the plain-arrow branch: an empty neighbor slot falls
\* through to createAdjacentTriangle.
navigateOrCreate(S, side) ==
    LET index == HandlerIndex(S)
    IN IF ~Valid(S, index) THEN [st |-> S, ret |-> Null]
       ELSE LET neighborIndex == S.triangles[index + 1].neighbors[side]
            IN IF neighborIndex # Null
               THEN [st  |-> selectTriangle(focusTriangle(S, neighborIndex), neighborIndex),
                     ret |-> neighborIndex]
               ELSE createAdjacentTriangle(S, index, side)

\* The plain-arrow branch of the keydown handler: focus and select the
\* neighbor on `side` of the handler's triangle, if there is one.
navigate(S, side) ==
    LET index == HandlerIndex(S)
    IN IF ~Valid(S, index) THEN [st |-> S, ret |-> Null]
       ELSE LET neighborIndex == S.triangles[index + 1].neighbors[side]
            IN IF neighborIndex # Null
               THEN [st  |-> selectTriangle(focusTriangle(S, neighborIndex), neighborIndex),
                     ret |-> neighborIndex]
               ELSE [st |-> S, ret |-> Null]

\* The 't' branch of the keydown handler: addTriangle(testVertices) with
\* the literal (-0.7,-0.4), (0,-0.4), (-0.35,0.3).  The y values are not
\* lattice points; they are taken at the nearest lattice points divisible
\* by 6^3 (y = -0.404 and 0.289).
TestVertices ==
    LET g == Scale \div 3
    IN <<<<(0 - 14) * g, (0 - 14) * g>>, <<0, (0 - 14) * g>>, <<(0 - 7) * g, 10 * g>>>>

testKey(S) ==
    IF ~Valid(S, HandlerIndex(S)) THEN [st |-> S, ret |-> Null]
    ELSE addTriangle(S, TestVertices, Null, Null)

\* updateTriangleBuffers, as render calls it (render returns before it when
\* triangleCount <= 0): uploads when dataChanged, and resets the flag.
\* Faulty variant of updateTriangleBuffers: the upload also resets the
\* selection cursor.
updateTriangleBuffersResetCursor(S) ==
    IF ~S.dataChanged \/ S.triangleCount <= 0 THEN S
    ELSE [S EXCEPT !.dataChanged = FALSE, !.selectedTriangleIndex = Null]

\* Faulty variant of updateTriangleBuffers: the flag is not reset after the
\* upload.
updateTriangleBuffersKeepFlag(S) == S

updateTriangleBuffers(S) ==
    IF ~S.dataChanged \/ S.triangleCount <= 0 THEN S
    ELSE [S EXCEPT !.dataChanged = FALSE]

\* createInitialTriangle: size = 0.5 * TRIANGLE_SIZE is the lattice's u.
SeedVertices == <<<<0 - Scale, 0 - Scale>>, <<Scale, 0 - Scale>>, <<0, 2 * Scale>>>>

\* The module-level initial values of the globals.
AppGlobals ==
    [ triangles             |-> <<>>,
      selectedTriangleIndex |-> Null,
      focusedTriangleIndex  |-> Null,
      triangleCount         |-> 0,
      nextTriangleId        |-> 0,
      dataChanged           |-> TRUE ]

createInitialTriangle(S) == addTriangle(S, SeedVertices, Null, Null).st

\* ------------------------------------ js/Triangle.js: the Triangle class
\* Triangle.makeEquilateral: keeps the first two vertices and puts the third
\* at midpoint + normalized(-dy, dx) * height, whatever third vertex it got.
makeEquilateral(vertices) ==
    <<vertices[1], vertices[2],
      Add(Midpoint(vertices[1], vertices[2]), LeftHeight(vertices[1], vertices[2]))>>

\* new Triangle(vertices, parent, side) of js/Triangle.js.  The relationship
\* objects ({}) take any key.
MgrTriangle(vertices, parent, side) ==
    LET stored == makeEquilateral(vertices)
    IN [ vertices       |-> stored,
         parent         |-> parent,
         side           |-> side,
         innerTriangles |-> NoLinks,
         outerTriangles |-> NoLinks,
         neighbors      |-> NoLinks,
         selected       |-> FALSE,
         focused        |-> FALSE,
         center         |-> Centroid(stored) ]

\* Triangle.getAdjacentTriangleVertices(side): the shared edge (side 0, side
\* 1, else the edge from vertex 2 to vertex 0) and the opposite vertex
\* reflected through the edge's midpoint.
getAdjacentTriangleVertices(t, side) ==
    LET sharedVertex1  == IF side = 0 THEN t.vertices[1]
                          ELSE IF side = 1 THEN t.vertices[2] ELSE t.vertices[3]
        sharedVertex2  == IF side = 0 THEN t.vertices[2]
                          ELSE IF side = 1 THEN t.vertices[3] ELSE t.vertices[1]
        oppositeVertex == IF side = 0 THEN t.vertices[3]
                          ELSE IF side = 1 THEN t.vertices[1] ELSE t.vertices[2]
        midpoint       == Midpoint(sharedVertex1, sharedVertex2)
        toMidpoint     == Sub(midpoint, oppositeVertex)
    IN <<sharedVertex1, sharedVertex2,
         Add(oppositeVertex, <<2 * toMidpoint[1], 2 * toMidpoint[2]>>)>>

\* Triangle.getInnerTriangleVertices(side), for side in 0..2 (vertices[3] is
\* undefined and .clone() on it throws).
getInnerTriangleVertices(t, side) ==
    <<t.vertices[side + 1], t.center, t.vertices[((side + 1) % 3) + 1]>>

\* Triangle.getOuterTriangleVertices(side), for side in 0..2: the midpoint
\* moved along center -> midpoint by the equilateral height.  center ->
\* midpoint is perpendicular to the edge (every Triangle is equilateral by
\* construction), so the direction is the edge normal on the midpoint's side.
getOuterTriangleVertices(t, side) ==
    LET v1          == t.vertices[side + 1]
        v2          == t.vertices[((side + 1) % 3) + 1]
        midpoint    == Midpoint(v1, v2)
        centerToMid == Sub(midpoint, t.center)
        direction   == IF Dot(LeftHeight(v1, v2), centerToMid) > 0
                       THEN LeftHeight(v1, v2) ELSE RightHeight(v1, v2)
    IN <<v1, v2, Add(midpoint, direction)>>

\* -------------------------------- js/TriangleManager.js: TriangleManager
\* u / 0.0001 for u = size / 2 = 0.75: the epsilon of verticesEqual, as a
\* fraction of the seed's half side.
MgrTolerance == 7500

verticesEqual(v1, v2) == CoordsWithin(v1, v2, MgrTolerance)

\* Faulty variant of findAdjacentSide: the scan keeps the last matching side.
findAdjacentSideLast(triangle1, triangle2) ==
    LET sharedCount(side) ==
            Cardinality({j \in 1..3 :
                \/ verticesEqual(triangle2.vertices[j], triangle1.vertices[side + 1])
                \/ verticesEqual(triangle2.vertices[j],
                                 triangle1.vertices[((side + 1) % 3) + 1])})
        found == {side \in Sides : sharedCount(side) = 2}
    IN IF found = {} THEN Null
       ELSE CHOOSE side \in found : \A other \in found : side >= other

\* findAdjacentSide(triangle1, triangle2): the first side of triangle1 for
\* which exactly two vertices of triangle2 equal one of its endpoints, or
\* null.
findAdjacentSide(triangle1, triangle2) ==
    LET sharedCount(side) ==
            Cardinality({j \in 1..3 :
                \/ verticesEqual(triangle2.vertices[j], triangle1.vertices[side + 1])
                \/ verticesEqual(triangle2.vertices[j],
                                 triangle1.vertices[((side + 1) % 3) + 1])})
        found == {side \in Sides : sharedCount(side) = 2}
    IN IF found = {} THEN Null
       ELSE CHOOSE side \in found : \A other \in found : side <= other

\* Faulty variant of setFocusedTriangle: the previous triangle keeps its
\* focused flag.
setFocusedTriangleKeepFlag(M, triangle) ==
    LET moved == [M EXCEPT !.focusedTriangle = triangle]
    IN IF triangle # Null
       THEN [moved EXCEPT !.triangles[triangle + 1].focused = TRUE]
       ELSE moved

\* setFocusedTriangle(triangle); Triangle.setFocus sets the flag.
setFocusedTriangle(M, triangle) ==
    LET cleared == IF M.focusedTriangle # Null
                   THEN [M EXCEPT !.triangles[M.focusedTriangle + 1].focused = FALSE]
                   ELSE M
        moved   == [cleared EXCEPT !.focusedTriangle = triangle]
    IN IF triangle # Null
       THEN [moved EXCEPT !.triangles[triangle + 1].focused = TRUE]
       ELSE moved

\* Faulty variant of TriangleManager.addTriangle: unshift instead of push.
mgrAddTriangleFront(M, triangle) == [M EXCEPT !.triangles = <<triangle>> \o M.triangles]

\* TriangleManager.addTriangle(triangle): no capacity check.
mgrAddTriangle(M, triangle) == [M EXCEPT !.triangles = Append(M.triangles, triangle)]

\* The result of a call that throws a TypeError before any assignment.
Throws(M) == [st |-> M, ret |-> Null, threw |-> TRUE]
Returns(M, value) == [st |-> M, ret |-> value, threw |-> FALSE]

\* TriangleManager.createAdjacentTriangle(triangle, side); triangle = Null is
\* a null reference (triangle.neighbors throws).
mgrCreateAdjacentTriangle(M, triangle, side) ==
    IF triangle = Null THEN Throws(M)
    ELSE LET t == M.triangles[triangle + 1]
         IN IF t.neighbors[side] # Null
            THEN Returns(setFocusedTriangle(M, t.neighbors[side]), t.neighbors[side])
            ELSE LET newTriangle ==
                         MgrTriangle(getAdjacentTriangleVertices(t, side), triangle, side)
                     new     == Len(M.triangles)
                     added   == mgrAddTriangle(M, newTriangle)
                     linked  == [added EXCEPT !.triangles[triangle + 1].neighbors[side] = new]
                     newSide == findAdjacentSide(newTriangle, t)
                     both    == IF newSide # Null
                                THEN [linked EXCEPT
                                        !.triangles[new + 1].neighbors[newSide] = triangle]
                                ELSE linked
                 IN Returns(setFocusedTriangle(both, new), new)

mgrCreateInnerTriangle(M, triangle, side) ==
    IF triangle = Null THEN Throws(M)
    ELSE LET t == M.triangles[triangle + 1]
         IN IF t.innerTriangles[side] # Null
            THEN Returns(setFocusedTriangle(M, t.innerTriangles[side]), t.innerTriangles[side])
            ELSE IF side \notin Sides THEN Throws(M)
            ELSE LET newTriangle ==
                         MgrTriangle(getInnerTriangleVertices(t, side), triangle, side)
                     new    == Len(M.triangles)
                     added  == mgrAddTriangle(M, newTriangle)
                     linked == [added EXCEPT
                                  !.triangles[triangle + 1].innerTriangles[side] = new]
                 IN Returns(setFocusedTriangle(linked, new), new)

mgrCreateOuterTriangle(M, triangle, side) ==
    IF triangle = Null THEN Throws(M)
    ELSE LET t == M.triangles[triangle + 1]
         IN IF t.outerTriangles[side] # Null
            THEN Returns(setFocusedTriangle(M, t.outerTriangles[side]), t.outerTriangles[side])
            ELSE IF side \notin Sides THEN Throws(M)
            ELSE LET newTriangle ==
                         MgrTriangle(getOuterTriangleVertices(t, side), triangle, side)
                     new    == Len(M.triangles)
                     added  == mgrAddTriangle(M, newTriangle)
                     linked == [added EXCEPT
                                  !.triangles[triangle + 1].outerTriangles[side] = new]
                 IN Returns(setFocusedTriangle(linked, new), new)

\* Faulty variant of moveToAdjacentTriangle: the neighbor is returned but
\* setFocusedTriangle is not called.
moveWithoutFocus(M, side) ==
    IF M.focusedTriangle = Null THEN Returns(M, Null)
    ELSE Returns(M, M.triangles[M.focusedTriangle + 1].neighbors[side])

\* moveToAdjacentTriangle(side)
moveToAdjacentTriangle(M, side) ==
    IF M.focusedTriangle = Null THEN Returns(M, Null)
    ELSE LET neighbor == M.triangles[M.focusedTriangle + 1].neighbors[side]
         IN IF neighbor # Null
            THEN Returns(setFocusedTriangle(M, neighbor), neighbor)
            ELSE Returns(M, Null)

\* selectedTriangles without its element at position index (splice(index, 1)).
Splice(seq, index) == SubSeq(seq, 1, index - 1) \o SubSeq(seq, index + 1, Len(seq))

\* toggleTriangleSelection(triangle), for a triangle of the mesh;
\* Triangle.setSelected sets the flag.
toggleTriangleSelection(M, triangle) ==
    IF \E k \in 1..Len(M.selectedTriangles) : M.selectedTriangles[k] = triangle
    THEN LET index == CHOOSE k \in 1..Len(M.selectedTriangles) :
                         /\ M.selectedTriangles[k] = triangle
                         /\ \A j \in 1..(k - 1) : M.selectedTriangles[j] # triangle
         IN [M EXCEPT !.selectedTriangles = Splice(M.selectedTriangles, index),
                      !.triangles[triangle + 1].selected = FALSE]
    ELSE [M EXCEPT !.selectedTriangles = Append(M.selectedTriangles, triangle),
                   !.triangles[triangle + 1].selected = TRUE]

\* Faulty variant of clearSelection: the list is emptied, the flags are kept.
clearSelectionKeepFlags(M) == [M EXCEPT !.selectedTriangles = <<>>]

\* clearSelection()
clearSelection(M) ==
    [M EXCEPT !.selectedTriangles = <<>>,
              !.triangles =
                 [i \in 1..Len(M.triangles) |->
                     IF \E k \in 1..Len(M.selectedTriangles) : M.selectedTriangles[k] = i - 1
                     THEN [M.triangles[i] EXCEPT !.selected = FALSE]
                     ELSE M.triangles[i]]]

\* The fields the constructor sets before createInitialTriangle.
MgrEmpty == [triangles |-> <<>>, focusedTriangle |-> Null, selectedTriangles |-> <<>>]

\* TriangleManager.createInitialTriangle: size / 2 = 0.75 is the lattice's u,
\* height / 3 = u / sqrt(3).
mgrCreateInitialTriangle(M) ==
    setFocusedTriangle(mgrAddTriangle(M, MgrTriangle(SeedVertices, Null, Null)), 0)

\* ------------------------------------------------ keyboard: both handlers
ArrowKeys == {"ArrowUp", "ArrowRight", "ArrowDown", "ArrowLeft"}

\* A keydown event: the key and the four modifier flags.
Modifiers == [metaKey : BOOLEAN, ctrlKey : BOOLEAN, shiftKey : BOOLEAN, altKey : BOOLEAN]
NoModifiers == [metaKey |-> FALSE, ctrlKey |-> FALSE, shiftKey |-> FALSE, altKey |-> FALSE]

RECURSIVE Gcd(_, _)
Gcd(m, n) == IF n = 0 THEN m ELSE Gcd(n, m % n)

\* p1 / sqrt(n1) > p2 / sqrt(n2), for n1, n2 > 0.
RatioGreater(p1, n1, p2, n2) ==
    IF p1 >= 0 /\ p2 < 0 THEN TRUE
    ELSE IF p1 < 0 /\ p2 >= 0 THEN FALSE
    ELSE IF p1 >= 0 THEN p1 * p1 * n2 > p2 * p2 * n1
    ELSE p1 * p1 * n2 < p2 * p2 * n1

\* getSideByArrowDirection, per side: the unit normal (-edgeY, edgeX)/length,
\* negated when its dot product with center -> midpoint is negative, dotted
\* with the arrow's direction.  In lattice terms the normal is
\* (-db, sqrt(3) * da) / sqrt(3 da^2 + db^2); the result is num / sqrt(den)
\* up to a positive factor common to the three sides of one comparison
\* (1 for a horizontal arrow, sqrt(3) for a vertical one).
Alignment(t, side, arrowKey) ==
    LET sv    == getSide(t, side)
        raw   == Sub(sv[2], sv[1])
        g     == Gcd(Abs(raw[1]), Abs(raw[2]))
        da    == raw[1] \div g
        db    == raw[2] \div g
        out   == Sub(Midpoint(sv[1], sv[2]), t.center)
        flip  == (da * out[2] - db * out[1]) < 0
        nx    == IF flip THEN db ELSE 0 - db
        ny    == IF flip THEN 0 - da ELSE da
    IN [num |-> CASE arrowKey = "ArrowUp"    -> ny
                  [] arrowKey = "ArrowDown"  -> 0 - ny
                  [] arrowKey = "ArrowRight" -> nx
                  [] arrowKey = "ArrowLeft"  -> 0 - nx,
        den |-> 3 * da * da + db * db]

\* getSideByArrowDirection(triangle, arrowKey): the sides no other side is
\* better aligned than.  The source keeps the first of them when the
\* alignments are equal as floats; two alignments that are equal as reals
\* may differ in the last bit either way, so every one of them is possible.
getSideByArrowDirection(t, arrowKey) ==
    {side \in Sides :
        \A other \in Sides :
            ~RatioGreater(Alignment(t, other, arrowKey).num, Alignment(t, other, arrowKey).den,
                          Alignment(t, side, arrowKey).num, Alignment(t, side, arrowKey).den)}

\* InputHandler.defaultArrowKeyToSide / getSideFromArrowKey (js/Triangle.js)
getSideFromArrowKey(key) ==
    CASE key = "ArrowUp" -> 1
      [] key = "ArrowRight" -> 1
      [] key = "ArrowDown" -> 0
      [] key = "ArrowLeft" -> 2

\* InputHandler.keyToSide with the letter-to-arrow mapping of
\* setupEventListeners.
LetterKeys == {"r", "d", "l"}
LetterArrow(key) ==
    CASE key = "r" -> "ArrowRight"
      [] key = "d" -> "ArrowDown"
      [] key = "l" -> "ArrowLeft"

\* ------------------------------------------------------------------ state
\* running: which generation the page runs ("app" or "manager").
\* The globals of js/app.js: triangles, selectedTriangleIndex,
\* focusedTriangleIndex, triangleCount, nextTriangleId, dataChanged.
\* manager: the TriangleManager object (triangles, focusedTriangle,
\* selectedTriangles).
\* last: history of js/app.js: the command its most recent event ran and what
\* it returned (InputHandler events leave it alone).
VARIABLES running, triangles, selectedTriangleIndex, focusedTriangleIndex,
          triangleCount, nextTriangleId, dataChanged, manager, last

appVars == <<triangles, selectedTriangleIndex, focusedTriangleIndex,
             triangleCount, nextTriangleId, dataChanged>>
vars == <<running, triangles, selectedTriangleIndex, focusedTriangleIndex,
          triangleCount, nextTriangleId, dataChanged, manager, last>>

\* Model bound on the manager's mesh (its addTriangle has no ceiling).
MgrMaxTriangles == 3

\* The globals of js/app.js as one record, and back.
AppState ==
    [ triangles             |-> triangles,
      selectedTriangleIndex |-> selectedTriangleIndex,
      focusedTriangleIndex  |-> focusedTriangleIndex,
      triangleCount         |-> triangleCount,
      nextTriangleId        |-> nextTriangleId,
      dataChanged           |-> dataChanged ]

SetApp(S) ==
    /\ triangles' = S.triangles
    /\ selectedTriangleIndex' = S.selectedTriangleIndex
    /\ focusedTriangleIndex' = S.focusedTriangleIndex
    /\ triangleCount' = S.triangleCount
    /\ nextTriangleId' = S.nextTriangleId
    /\ dataChanged' = S.dataChanged

\* A history record: the command the last event ran and what it returned.
Call(op, ret) == [op |-> op, ret |-> ret]

\* initWebGL: the globals after createInitialTriangle().
InitApp ==
    /\ running = "app"
    /\ LET S == createInitialTriangle(AppGlobals)
       IN /\ triangles = S.triangles
          /\ selectedTriangleIndex = S.selectedTriangleIndex
          /\ focusedTriangleIndex = S.focusedTriangleIndex
          /\ triangleCount = S.triangleCount
          /\ nextTriangleId = S.nextTriangleId
          /\ dataChanged = S.dataChanged
    /\ manager = MgrEmpty
    /\ last = Call("init", 0)

\* new TriangleManager(scene)
InitMgr ==
    /\ running = "manager"
    /\ triangles = AppGlobals.triangles
    /\ selectedTriangleIndex = AppGlobals.selectedTriangleIndex
    /\ focusedTriangleIndex = AppGlobals.focusedTriangleIndex
    /\ triangleCount = AppGlobals.triangleCount
    /\ nextTriangleId = AppGlobals.nextTriangleId
    /\ dataChanged = AppGlobals.dataChanged
    /\ manager = mgrCreateInitialTriangle(MgrEmpty)
    /\ last = Call("init", 0)

Init == InitApp \/ InitMgr

\* ------------------------------------------------------- actions: app.js
\* Faulty variant of Dispatch: Ctrl no longer stands in for Cmd.
DispatchMetaOnly(mods) ==
    IF mods.metaKey /\ mods.altKey THEN "createOuter"
    ELSE IF mods.altKey THEN "createInner"
    ELSE IF mods.metaKey THEN "createAdjacent"
    ELSE IF mods.shiftKey THEN "toggleSelect"
    ELSE "navigate"

\* The command an arrow key with these modifiers dispatches to.
Dispatch(mods) ==
    LET withCmd == mods.metaKey \/ mods.ctrlKey
    IN IF withCmd /\ mods.altKey THEN "createOuter"
       ELSE IF mods.altKey THEN "createInner"
       ELSE IF withCmd THEN "createAdjacent"
       ELSE IF mods.shiftKey THEN "toggleSelect"
       ELSE "navigate"

\* The arrow branch of the keydown handler, once the side is known.
arrowCommand(S, index, side, command) ==
    CASE command = "createOuter"    -> createOuterTriangle(S, index, side)
      [] command = "createInner"    -> createInnerTriangle(S, index, side)
      [] command = "createAdjacent" -> createAdjacentTriangle(S, index, side)
      [] command = "toggleSelect"   -> [st |-> toggleSelectTriangle(S, index), ret |-> Null]
      [] command = "navigate"       -> navigate(S, side)

\* The commands an arrow key can dispatch to, over all modifier states.
AppCommands == {Dispatch(mods) : mods \in Modifiers}

\* keydown with an arrow key, the modifiers selecting `command`.
KeyArrow(arrowKey, command) ==
    /\ running = "app"
    /\ Valid(AppState, HandlerIndex(AppState))
    /\ \E side \in getSideByArrowDirection(triangles[HandlerIndex(AppState) + 1], arrowKey) :
          LET r == arrowCommand(AppState, HandlerIndex(AppState), side, command)
          IN /\ SetApp(r.st)
             /\ last' = Call(command, r.ret)
    /\ UNCHANGED <<running, manager>>

\* keydown with 't'.
KeyTest ==
    /\ running = "app"
    /\ LET r == testKey(AppState)
       IN /\ SetApp(r.st)
          /\ last' = Call("testKey", r.ret)
    /\ UNCHANGED <<running, manager>>

\* An animation frame.
Render ==
    /\ running = "app"
    /\ SetApp(updateTriangleBuffers(AppState))
    /\ last' = Call("render", Null)
    /\ UNCHANGED <<running, manager>>

NextApp ==
    \/ \E arrowKey \in ArrowKeys, command \in AppCommands : KeyArrow(arrowKey, command)
    \/ KeyTest
    \/ Render

\* ------------------------------------------- actions: InputHandler
\* The command InputHandler dispatches an arrow key to: meta first
\* (setupEventListeners), then shift, alt+ctrl, alt (handleKeyDown).
MgrDispatch(mods) ==
    IF mods.metaKey THEN "createAdjacent"
    ELSE IF mods.shiftKey THEN "toggleSelect"
    ELSE IF mods.altKey /\ mods.ctrlKey THEN "createOuter"
    ELSE IF mods.altKey THEN "createInner"
    ELSE "navigate"

\* InputHandler.createAdjacentTriangle / createInnerSubTriangle /
\* createOuterSubTriangle / selectTriangle / navigateToTriangle on the
\* focused triangle.
mgrCommand(M, command, side) ==
    CASE command = "createAdjacent" ->
            LET r == mgrCreateAdjacentTriangle(M, M.focusedTriangle, side)
            IN [st |-> setFocusedTriangle(r.st, r.ret), ret |-> r.ret]
      [] command = "createInner" ->
            LET r == mgrCreateInnerTriangle(M, M.focusedTriangle, side)
            IN [st |-> IF r.ret # Null THEN setFocusedTriangle(r.st, r.ret) ELSE r.st,
                ret |-> r.ret]
      [] command = "createOuter" ->
            LET r == mgrCreateOuterTriangle(M, M.focusedTriangle, side)
            IN [st |-> IF r.ret # Null THEN setFocusedTriangle(r.st, r.ret) ELSE r.st,
                ret |-> r.ret]
      [] command = "toggleSelect" ->
            LET r == moveToAdjacentTriangle(
                        toggleTriangleSelection(M, M.focusedTriangle), side)
            IN [st |-> IF r.ret # Null THEN setFocusedTriangle(r.st, r.ret) ELSE r.st,
                ret |-> r.ret]
      [] command = "navigate" ->
            LET r == moveToAdjacentTriangle(M, side)
            IN [st |-> r.st, ret |-> r.ret]

MgrCommand(command, side) ==
    /\ running = "manager"
    /\ manager.focusedTriangle # Null
    /\ LET r == mgrCommand(manager, command, side)
       IN /\ Len(r.st.triangles) <= MgrMaxTriangles
          /\ manager' = r.st
          /\ UNCHANGED <<running, appVars, last>>

\* The commands an arrow key can dispatch to, over all modifier states.
MgrCommands == {MgrDispatch(mods) : mods \in Modifiers}

\* keydown with an arrow key, the modifiers selecting `command`.
MgrKeyArrow(arrowKey, command) == MgrCommand(command, getSideFromArrowKey(arrowKey))

\* keydown with 'r', 'd' or 'l' (not reached with meta + arrow).
MgrKeyLetter(key) == MgrCommand("createAdjacent", getSideFromArrowKey(LetterArrow(key)))

NextMgr ==
    \/ \E arrowKey \in ArrowKeys, command \in MgrCommands : MgrKeyArrow(arrowKey, command)
    \/ \E key \in LetterKeys : MgrKeyLetter(key)

Next == NextApp \/ NextMgr

\* ------------------------------- the derivations on caller-supplied input
\* addTriangle(vertices) and new Triangle(vertices) take any vertices.  The
\* triangles a caller can pass here: every triple over the seed's three
\* points, in any order, two or three of them coinciding included.
InputPoints == {SeedVertices[1], SeedVertices[2], SeedVertices[3]}
InputTriangles == {<<a, b, c>> : a \in InputPoints, b \in InputPoints, c \in InputPoints}

\* A mesh whose first triangle was added with the vertices vs.
InitInputs ==
    \E vs \in InputTriangles :
       \/ /\ running = "app"
          /\ LET S == addTriangle(AppGlobals, vs, Null, Null).st
             IN /\ triangles = S.triangles
                /\ selectedTriangleIndex = S.selectedTriangleIndex
                /\ focusedTriangleIndex = S.focusedTriangleIndex
                /\ triangleCount = S.triangleCount
                /\ nextTriangleId = S.nextTriangleId
                /\ dataChanged = S.dataChanged
          /\ manager = MgrEmpty
          /\ last = Call("init", 0)
       \/ /\ running = "manager"
          /\ triangles = AppGlobals.triangles
          /\ selectedTriangleIndex = AppGlobals.selectedTriangleIndex
          /\ focusedTriangleIndex = AppGlobals.focusedTriangleIndex
          /\ triangleCount = AppGlobals.triangleCount
          /\ nextTriangleId = AppGlobals.nextTriangleId
          /\ dataChanged = AppGlobals.dataChanged
          /\ manager = setFocusedTriangle(
                           mgrAddTriangle(MgrEmpty, MgrTriangle(vs, Null, Null)), 0)
          /\ last = Call("init", 0)

\* One derivation on an edge of the supplied triangle, js/app.js.
DeriveApp(op, e) ==
    /\ running = "app"
    /\ Len(triangles) = 1
    /\ LET r == arrowCommand(AppState, 0, e, op)
       IN /\ SetApp(r.st)
          /\ last' = Call(op, r.ret)
    /\ UNCHANGED <<running, manager>>

\* One derivation on an edge of the supplied triangle, TriangleManager.
DeriveMgr(op, e) ==
    /\ running = "manager"
    /\ Len(manager.triangles) = 1
    /\ manager' = mgrCommand(manager, op, e).st
    /\ UNCHANGED <<running, appVars, last>>

NextInputs ==
    \/ \E op \in {"createAdjacent", "createInner", "createOuter"}, e \in 0..2 : DeriveApp(op, e)
    \/ \E op \in {"createAdjacent", "createInner", "createOuter"}, e \in 0..2 : DeriveMgr(op, e)

SpecApp == InitApp /\ [][NextApp]_vars
SpecInputs == InitInputs /\ [][NextInputs]_vars

\* js/app.js with its render loop running: render re-registers itself with
\* requestAnimationFrame at the end of every frame, so a frame that has work
\* to do is eventually run.
SpecAppFair == InitApp /\ [][NextApp]_vars /\ WF_vars(Render)
SpecMgr == InitMgr /\ [][NextMgr]_vars
Spec == Init /\ [][Next]_vars

\* ------------------------------------------------- properties: vocabulary
\* The three derivations, by the command names the handlers dispatch to.
CreateOps == {"createAdjacent", "createInner", "createOuter"}

\* The indices of the triangles of either mesh.
AppIndices == 0..(Len(triangles) - 1)
MgrIndices == 0..(Len(manager.triangles) - 1)

\* The slot of triangle record t a derivation on edge e registers its result in.
DerivedSlot(t, op, e) ==
    CASE op = "createAdjacent" -> t.neighbors[e]
      [] op = "createInner"    -> t.innerTriangles[e]
      [] op = "createOuter"    -> t.outerTriangles[e]

\* A derivation of the TriangleManager addressed at any triangle.
mgrCreate(M, op, triangle, e) ==
    CASE op = "createAdjacent" -> mgrCreateAdjacentTriangle(M, triangle, e)
      [] op = "createInner"    -> mgrCreateInnerTriangle(M, triangle, e)
      [] op = "createOuter"    -> mgrCreateOuterTriangle(M, triangle, e)

\* The endpoints of edge e as vertex positions: e and (e + 1) mod 3.
EdgeEnds(e) == {e + 1, ((e + 1) % 3) + 1}

\* Vertex equality under the tolerance of the running generation.
SameVertex(p, q) ==
    IF running = "app" THEN CoordsWithin(p, q, AppTolerance) ELSE verticesEqual(p, q)

\* The three pairwise distances of vs are equal within u / k:
\* |sqrt d1 - sqrt d2| < sqrt(3) * Scale / k in lattice units, that is
\* |d1 - d2| < sqrt(3 * Scale^2) * (sqrt d1 + sqrt d2) / k, with the square
\* roots taken as integers (the rounding moves the threshold by less than a
\* thousandth of itself).
EquilateralWithin(vs, k) ==
    LET d(i, j) == Dist2(vs[i], vs[j])
        close(d1, d2) ==
            Abs(d1 - d2) <= (Isqrt(3 * Scale * Scale) * (Isqrt(d1) + Isqrt(d2))) \div k
    IN close(d(1, 2), d(2, 3)) /\ close(d(2, 3), d(3, 1)) /\ close(d(3, 1), d(1, 2))

\* ------------------------------------------------------------ properties
\* C1.  Reuse rule: for each derivation, every triangle T of the mesh and
\* every edge e in 0..2 whose slot already holds the triangle an earlier call
\* registered, calling the derivation on (T, e) again returns that triangle
\* and does not increase the triangle count.
C1_ReuseRule ==
    /\ running = "app" =>
          \A op \in CreateOps, i \in AppIndices, e \in Sides :
             LET slot == DerivedSlot(triangles[i + 1], op, e)
                 r    == arrowCommand(AppState, i, e, op)
             IN slot # Null =>
                   /\ r.ret = slot
                   /\ r.st.triangleCount = triangleCount
                   /\ Len(r.st.triangles) = Len(triangles)
    /\ running = "manager" =>
          \A op \in CreateOps, i \in MgrIndices, e \in Sides :
             LET slot == DerivedSlot(manager.triangles[i + 1], op, e)
                 r    == mgrCreate(manager, op, i, e)
             IN slot # Null =>
                   /\ r.ret = slot
                   /\ Len(r.st.triangles) = Len(manager.triangles)

\* C2.  Round trip: whenever createAdjacent(T, e) succeeds and yields N with
\* an edge r whose neighbor slot holds T, navigating from N over r moves the
\* focus to T; for every T of a reachable mesh and every e in 0..2.
C2_RoundTrip ==
    /\ running = "app" =>
          \A i \in AppIndices, e \in Sides :
             LET c == createAdjacentTriangle(AppState, i, e)
             IN c.ret # Null =>
                   \A r \in Sides :
                      c.st.triangles[c.ret + 1].neighbors[r] = i =>
                         /\ navigate(c.st, r).ret = i
                         /\ navigate(c.st, r).st.focusedTriangleIndex = i
    /\ running = "manager" =>
          \A i \in MgrIndices, e \in Sides :
             LET c == mgrCreateAdjacentTriangle(manager, i, e)
             IN c.ret # Null =>
                   \A r \in Sides :
                      c.st.triangles[c.ret + 1].neighbors[r] = i =>
                         /\ moveToAdjacentTriangle(c.st, r).ret = i
                         /\ moveToAdjacentTriangle(c.st, r).st.focusedTriangle = i

\* A navigate step has just moved the focus to T from a neighbor N that
\* createAdjacent derived from T (N's parent is T) and that points back at T.
C2_Witness ==
    /\ running = "app"
    /\ last.op = "navigate"
    /\ last.ret = focusedTriangleIndex
    /\ \E n \in AppIndices, e \in Sides, r \in Sides :
          /\ triangles[focusedTriangleIndex + 1].neighbors[e] = n
          /\ triangles[n + 1].parent = focusedTriangleIndex
          /\ triangles[n + 1].neighbors[r] = focusedTriangleIndex

\* Triangle n shares exactly two vertices with t under the vertex tolerance,
\* they are the endpoints of t's edge e, and n's third vertex is no vertex
\* of t.
SharesExactlyEdge(n, t, e) ==
    /\ {k \in 1..3 : \E j \in 1..3 : SameVertex(n.vertices[j], t.vertices[k])} = EdgeEnds(e)
    /\ Cardinality({j \in 1..3 : \E k \in 1..3 : SameVertex(n.vertices[j], t.vertices[k])}) = 2
    /\ \A k \in 1..3 : ~SameVertex(n.vertices[3], t.vertices[k])

\* C3.  For every triangle T of the mesh and every edge e in 0..2, the
\* triangle createAdjacent(T, e) registers shares exactly two vertices with
\* T under the vertex tolerance, they are the endpoints vertex[e] and
\* vertex[(e + 1) mod 3] of edge e, and its third vertex is no vertex of T.
C3_AdjacentSharesEdge ==
    /\ running = "app" =>
          \A i \in AppIndices, e \in Sides :
             LET r == createAdjacentTriangle(AppState, i, e)
             IN r.ret # Null =>
                   SharesExactlyEdge(r.st.triangles[r.ret + 1], triangles[i + 1], e)
    /\ running = "manager" =>
          \A i \in MgrIndices, e \in Sides :
             LET r == mgrCreateAdjacentTriangle(manager, i, e)
             IN r.ret # Null =>
                   SharesExactlyEdge(r.st.triangles[r.ret + 1], manager.triangles[i + 1], e)

\* C4.  Equilateral invariant: in every reachable state every triangle of
\* the mesh has its three pairwise vertex distances equal within the
\* tolerance.
C4_Equilateral ==
    /\ running = "app" =>
          \A i \in AppIndices : EquilateralWithin(triangles[i + 1].vertices, AppTolerance)
    /\ running = "manager" =>
          \A i \in MgrIndices : EquilateralWithin(manager.triangles[i + 1].vertices, MgrTolerance)

\* The vertex set the inner triangle on edge e of t is specified to have, and
\* the vertex set a triangle stores.
InnerVertexSet(t, e) == {t.vertices[e + 1], t.center, t.vertices[((e + 1) % 3) + 1]}
StoredVertexSet(n) == {n.vertices[1], n.vertices[2], n.vertices[3]}

\* C5.  For every triangle T of the mesh and every edge e in 0..2, the
\* triangle createInner(T, e) registers has the stored vertex set
\* {T.vertex[e], T.centroid, T.vertex[(e + 1) mod 3]} and is stored in
\* T.innerTriangles[e].
C5_InnerVertices ==
    /\ running = "app" =>
          \A i \in AppIndices, e \in Sides :
             LET r == createInnerTriangle(AppState, i, e)
             IN r.ret # Null =>
                   /\ StoredVertexSet(r.st.triangles[r.ret + 1]) = InnerVertexSet(triangles[i + 1], e)
                   /\ r.st.triangles[i + 1].innerTriangles[e] = r.ret
    /\ running = "manager" =>
          \A i \in MgrIndices, e \in Sides :
             LET r == mgrCreateInnerTriangle(manager, i, e)
             IN r.ret # Null =>
                   /\ StoredVertexSet(r.st.triangles[r.ret + 1]) =
                         InnerVertexSet(manager.triangles[i + 1], e)
                   /\ r.st.triangles[i + 1].innerTriangles[e] = r.ret

\* A triangle record without its selected / focused flags: identity,
\* geometry, parent and every relationship slot.
Structure(t) == [t EXCEPT !.selected = FALSE, !.focused = FALSE]

\* C6.  navigate never creates a triangle: from every state and for every
\* edge, a navigate step leaves the triangle collection, the triangle count,
\* the id counter and every neighbor / inner / outer / parent slot of every
\* triangle unchanged.
C6_NavigateFrame ==
    /\ running = "app" =>
          \A e \in Sides :
             LET after == navigate(AppState, e).st
             IN /\ Len(after.triangles) = Len(triangles)
                /\ after.triangleCount = triangleCount
                /\ after.nextTriangleId = nextTriangleId
                /\ \A i \in AppIndices :
                      Structure(after.triangles[i + 1]) = Structure(triangles[i + 1])
    /\ running = "manager" =>
          \A e \in Sides :
             LET after == moveToAdjacentTriangle(manager, e).st
             IN /\ Len(after.triangles) = Len(manager.triangles)
                /\ \A i \in MgrIndices :
                      Structure(after.triangles[i + 1]) = Structure(manager.triangles[i + 1])

\* A navigate step has just moved the focus and the selection to a neighbor.
C6_Witness ==
    /\ running = "app"
    /\ last.op = "navigate"
    /\ last.ret # Null
    /\ focusedTriangleIndex = last.ret
    /\ selectedTriangleIndex = last.ret
    /\ triangleCount >= 2

\* C7.  navigate(T, e) with T the focused triangle moves the focus to
\* T.neighbor[e] when that slot holds a triangle and leaves it on T when the
\* slot is empty.
C7_NavigateFocus ==
    /\ running = "app" =>
          \A e \in Sides :
             LET T        == HandlerIndex(AppState)
                 neighbor == triangles[T + 1].neighbors[e]
                 after    == navigate(AppState, e).st
             IN /\ T = focusedTriangleIndex
                /\ after.focusedTriangleIndex = IF neighbor # Null THEN neighbor ELSE T
    /\ running = "manager" =>
          \A e \in Sides :
             LET T        == manager.focusedTriangle
                 neighbor == manager.triangles[T + 1].neighbors[e]
                 after    == moveToAdjacentTriangle(manager, e).st
             IN after.focusedTriangle = IF neighbor # Null THEN neighbor ELSE T

\* A navigate step over an empty slot has just left the focus where it was,
\* on a triangle that also has a neighbor to move to.
C7_Witness ==
    /\ running = "app"
    /\ last.op = "navigate"
    /\ last.ret = Null
    /\ focusedTriangleIndex >= 0
    /\ \E e \in Sides : triangles[focusedTriangleIndex + 1].neighbors[e] = Null
    /\ \E e \in Sides : triangles[focusedTriangleIndex + 1].neighbors[e] # Null

\* C8.  After every successful createAdjacent, createInner or createOuter
\* (creating or reusing), the focused triangle is the triangle the call
\* returned, and that triangle is a member of the mesh.
C8_FocusFollowsCreate ==
    /\ running = "app" =>
          \A op \in CreateOps, i \in AppIndices, e \in Sides :
             LET r == arrowCommand(AppState, i, e, op)
             IN r.ret # Null =>
                   /\ r.st.focusedTriangleIndex = r.ret
                   /\ Valid(r.st, r.ret)
                   /\ r.ret < r.st.triangleCount
    /\ running = "manager" =>
          \A op \in CreateOps, i \in MgrIndices, e \in Sides :
             LET r == mgrCreate(manager, op, i, e)
             IN r.ret # Null =>
                   /\ r.st.focusedTriangle = r.ret
                   /\ r.ret >= 0 /\ r.ret < Len(r.st.triangles)

\* A derivation has just returned the triangle it added, and the focus is
\* on it.
C8_Witness ==
    /\ running = "app"
    /\ last.op \in CreateOps
    /\ last.ret # Null
    /\ last.ret = triangleCount - 1
    /\ focusedTriangleIndex = last.ret
    /\ triangles[last.ret + 1].parent # Null

\* C9.  Capacity: the triangle count never exceeds MAX_TRIANGLES, and once
\* the mesh holds MAX_TRIANGLES triangles every createAdjacent / createInner
\* / createOuter returns null and changes nothing: count, collection, id
\* counter, relationship slots, focus and selection.
C9_Capacity ==
    running = "app" =>
       /\ triangleCount <= MAX_TRIANGLES
       /\ Len(triangles) = triangleCount
       /\ triangleCount >= MAX_TRIANGLES =>
             \A op \in CreateOps, i \in AppIndices, e \in Sides :
                arrowCommand(AppState, i, e, op) = [st |-> AppState, ret |-> Null]

\* A derivation has just been refused on a full mesh.
C9_Witness ==
    /\ running = "app"
    /\ triangleCount = MAX_TRIANGLES
    /\ last.op \in CreateOps
    /\ last.ret = Null

\* C10.  Invalid arguments: a derivation or navigation addressed at a
\* triangle that does not exist, or given an edge index outside 0..2,
\* signals an error (null, or an exception) and changes nothing.
C10_InvalidArguments ==
    /\ running = "app" =>
          /\ \A op \in CreateOps, i \in IndexArgs \cup {Null}, e \in SideArgs :
                (~Valid(AppState, i) \/ e \notin Sides) =>
                   arrowCommand(AppState, i, e, op) = [st |-> AppState, ret |-> Null]
          /\ \A e \in SideArgs \ Sides :
                navigate(AppState, e) = [st |-> AppState, ret |-> Null]
    /\ running = "manager" =>
          /\ \A op \in CreateOps, i \in MgrIndices \cup {Null}, e \in SideArgs :
                (i = Null \/ e \notin Sides) =>
                   LET r == mgrCreate(manager, op, i, e)
                   IN r.st = manager /\ (r.threw \/ r.ret = Null)
          /\ \A e \in SideArgs \ Sides :
                moveToAdjacentTriangle(manager, e) = Returns(manager, Null)

\* Edge e of triangle record t has coinciding endpoints.
ZeroLengthEdge(t, e) == t.vertices[e + 1] = t.vertices[((e + 1) % 3) + 1]

\* C11.  Degenerate geometry: a derivation on an edge whose two endpoints
\* coincide signals a geometry error (null, or an exception) and registers
\* no triangle: mesh size, links and focus are unchanged.
C11_DegenerateGeometry ==
    /\ running = "app" =>
          \A op \in CreateOps, i \in AppIndices, e \in Sides :
             ZeroLengthEdge(triangles[i + 1], e) =>
                arrowCommand(AppState, i, e, op) = [st |-> AppState, ret |-> Null]
    /\ running = "manager" =>
          \A op \in CreateOps, i \in MgrIndices, e \in Sides :
             ZeroLengthEdge(manager.triangles[i + 1], e) =>
                LET r == mgrCreate(manager, op, i, e)
                IN r.st = manager /\ (r.threw \/ r.ret = Null)

\* The selected set of either mesh: the triangles whose selected flag is
\* set, and the members of the manager's selectedTriangles list.
SelectedSet(S) == {i \in 0..(Len(S.triangles) - 1) : S.triangles[i + 1].selected}
ListedSet(M) == {M.selectedTriangles[k] : k \in 1..Len(M.selectedTriangles)}

\* The set sel with the membership of i flipped.
Flipped(sel, i) == IF i \in sel THEN sel \ {i} ELSE sel \cup {i}

\* C12.  toggleSelection(T) on a triangle T of the mesh adds T to the
\* selected set if it was absent and removes it if it was present, leaves
\* the selected status of every other triangle unchanged and marks the mesh
\* dirty; two consecutive toggles of T restore the original selected set.
C12_ToggleSelection ==
    /\ running = "app" =>
          \A i \in AppIndices :
             LET once  == toggleSelectTriangle(AppState, i)
                 twice == toggleSelectTriangle(once, i)
             IN /\ SelectedSet(once) = Flipped(SelectedSet(AppState), i)
                /\ once.dataChanged
                /\ SelectedSet(twice) = SelectedSet(AppState)
                /\ twice.dataChanged
    /\ running = "manager" =>
          \A i \in MgrIndices :
             LET once  == toggleTriangleSelection(manager, i)
                 twice == toggleTriangleSelection(once, i)
             IN /\ ListedSet(once) = Flipped(ListedSet(manager), i)
                /\ SelectedSet(once) = Flipped(SelectedSet(manager), i)
                /\ ListedSet(twice) = ListedSet(manager)
                /\ SelectedSet(twice) = SelectedSet(manager)

\* Shift+Arrow has just removed the focused triangle from the selected set of
\* a mesh of several triangles.
C12_Witness ==
    /\ running = "app"
    /\ last.op = "toggleSelect"
    /\ triangleCount >= 2
    /\ focusedTriangleIndex >= 1
    /\ ~triangles[focusedTriangleIndex + 1].selected
    /\ dataChanged

\* Longest sequence of arrow-key commands followed from the initial state.
MaxKeys == 4

\* The globals after one arrow-key event of the app.js handler, over every
\* arrow key and every modifier state.
KeyStep(S) ==
    IF Valid(S, HandlerIndex(S))
    THEN UNION { UNION { { arrowCommand(S, HandlerIndex(S), side, command).st :
                              side \in getSideByArrowDirection(
                                          S.triangles[HandlerIndex(S) + 1], arrowKey) } :
                         arrowKey \in ArrowKeys } :
                 command \in AppCommands }
    ELSE {S}

\* The manager after one arrow-key event of InputHandler, over every arrow
\* key and every modifier state.
MgrKeyStep(M) ==
    IF M.focusedTriangle # Null
    THEN LET after == UNION { { mgrCommand(M, command, getSideFromArrowKey(arrowKey)).st :
                                   arrowKey \in ArrowKeys } :
                              command \in MgrCommands }
         IN {N \in after : Len(N.triangles) <= MgrMaxTriangles}
    ELSE {M}

\* The states reached from the set F by at most k arrow-key events.
RECURSIVE KeyReach(_, _)
KeyReach(F, k) ==
    IF k = 0 THEN F ELSE KeyReach(F \cup UNION {KeyStep(S) : S \in F}, k - 1)

RECURSIVE MgrKeyReach(_, _)
MgrKeyReach(F, k) ==
    IF k = 0 THEN F ELSE MgrKeyReach(F \cup UNION {MgrKeyStep(M) : M \in F}, k - 1)

\* C13.  Multi-select is reachable: from the initial state of the running
\* program there is a sequence of arrow-key commands (with Shift, Cmd, Alt,
\* Ctrl as the key handler dispatches them) after which at least two
\* triangles are selected at once.
C13_MultiSelectReachable ==
    /\ running = "app" =>
          \E S \in KeyReach({createInitialTriangle(AppGlobals)}, MaxKeys) :
             Cardinality(SelectedSet(S)) >= 2
    /\ running = "manager" =>
          \E M \in MgrKeyReach({mgrCreateInitialTriangle(MgrEmpty)}, MaxKeys) :
             Cardinality(ListedSet(M)) >= 2

\* Through the app.js key handler the only triangle ever selected is the
\* focused one (checked over all key sequences, not only MaxKeys of them).
AppSelectsOnlyFocus ==
    running = "app" => SelectedSet(AppState) \subseteq {focusedTriangleIndex}

\* InputHandler has two triangles selected at once.
MgrMultiSelected == running = "manager" /\ Cardinality(ListedSet(manager)) >= 2

\* ---------------------------------- selection calls with a selection order
\* The selection order after a call took the globals from S to R: the
\* triangles still selected, oldest selection first, then the one the call
\* selected.
RECURSIVE StillSelected(_, _)
StillSelected(order, R) ==
    IF order = <<>> THEN <<>>
    ELSE IF R.triangles[Head(order) + 1].selected
         THEN <<Head(order)>> \o StillSelected(Tail(order), R)
         ELSE StillSelected(Tail(order), R)

Track(order, S, R, index) ==
    LET newly == Valid(R, index) /\ R.triangles[index + 1].selected
                 /\ ~(Valid(S, index) /\ S.triangles[index + 1].selected)
    IN IF newly THEN StillSelected(order, R) \o <<index>> ELSE StillSelected(order, R)

\* Under SpecSelect the history record carries the selection order.
SelectionOrder == last.ret

\* initWebGL, no selection made yet.
InitSelect ==
    /\ running = "app"
    /\ LET S == createInitialTriangle(AppGlobals)
       IN /\ triangles = S.triangles
          /\ selectedTriangleIndex = S.selectedTriangleIndex
          /\ focusedTriangleIndex = S.focusedTriangleIndex
          /\ triangleCount = S.triangleCount
          /\ nextTriangleId = S.nextTriangleId
          /\ dataChanged = S.dataChanged
    /\ manager = MgrEmpty
    /\ last = Call("init", <<>>)

\* selectTriangle(index) on a valid index.
CallSelect(index) ==
    /\ running = "app"
    /\ Valid(AppState, index)
    /\ LET R == selectTriangle(AppState, index)
       IN /\ SetApp(R)
          /\ last' = Call("selectTriangle",
                          StillSelected(SelectionOrder, [R EXCEPT
                              !.triangles[index + 1].selected = FALSE]) \o <<index>>)
    /\ UNCHANGED <<running, manager>>

\* toggleSelectTriangle(index) on a valid index.
CallToggle(index) ==
    /\ running = "app"
    /\ Valid(AppState, index)
    /\ LET R == toggleSelectTriangle(AppState, index)
       IN /\ SetApp(R)
          /\ last' = Call("toggleSelectTriangle", Track(SelectionOrder, AppState, R, index))
    /\ UNCHANGED <<running, manager>>

\* Cmd+Arrow on the focused triangle: the mesh grows, and
\* createAdjacentTriangle selects the triangle it returns.
CallCreate(arrowKey) ==
    /\ running = "app"
    /\ \E side \in getSideByArrowDirection(triangles[HandlerIndex(AppState) + 1], arrowKey) :
          LET r == createAdjacentTriangle(AppState, HandlerIndex(AppState), side)
          IN /\ r.ret # Null
             /\ SetApp(r.st)
             /\ last' = Call("createAdjacent",
                             StillSelected(SelectionOrder, [r.st EXCEPT
                                 !.triangles[r.ret + 1].selected = FALSE]) \o <<r.ret>>)
    /\ UNCHANGED <<running, manager>>

NextSelect ==
    \/ \E index \in AppIndices : CallSelect(index)
    \/ \E index \in AppIndices : CallToggle(index)
    \/ \E arrowKey \in ArrowKeys : CallCreate(arrowKey)

SpecSelect == InitSelect /\ [][NextSelect]_vars

\* C14.  The 'current' selected triangle is the last one selected: after
\* any sequence of selectTriangle / toggleSelectTriangle calls on valid
\* indices, selectedTriangleIndex is the most recently selected triangle
\* among those still selected, and it is -1 exactly when no triangle is
\* selected.
C14_CurrentIsLastSelected ==
    (running = "app" /\ last.op # "init") =>
       /\ (selectedTriangleIndex = Null) <=> (SelectedSet(AppState) = {})
       /\ SelectedSet(AppState) # {} =>
             selectedTriangleIndex = SelectionOrder[Len(SelectionOrder)]

\* The triangles of a mesh that carry the focused flag.
FocusedSet(S) == {i \in 0..(Len(S.triangles) - 1) : S.triangles[i + 1].focused}

\* C15.  Focus is always valid: once the seed exists, the focus designates
\* exactly one triangle and that triangle is a member of the mesh; it is
\* never 'no focus' and never out of range.
C15_FocusValid ==
    /\ running = "app" =>
          /\ triangleCount >= 1
          /\ focusedTriangleIndex \in 0..(triangleCount - 1)
          /\ FocusedSet(AppState) \subseteq {focusedTriangleIndex}
    /\ running = "manager" =>
          /\ Len(manager.triangles) >= 1
          /\ manager.focusedTriangle \in MgrIndices
          /\ FocusedSet(manager) = {manager.focusedTriangle}

\* The focus has moved off the seed to a later member of a full mesh.
C15_Witness ==
    /\ running = "app"
    /\ triangleCount = MAX_TRIANGLES
    /\ focusedTriangleIndex = triangleCount - 1
    /\ last.op = "navigate"
    /\ FocusedSet(AppState) = {focusedTriangleIndex}

\* C16.  Every triangle but the seed has a parent: every step that adds a
\* triangle to the mesh adds exactly one, through one of the three
\* derivations, with a parent that is an earlier member, a parent edge in
\* 0..2, and the new triangle focused after the step; no input command adds
\* a triangle in any other way, so the seed stays the only triangle without
\* a parent.
C16_DerivedFromParent ==
    [][ /\ (running = "app" /\ Len(triangles') > Len(triangles)) =>
              /\ Len(triangles') = Len(triangles) + 1
              /\ LET new == triangles'[Len(triangles')]
                 IN /\ new.parent \in 0..(Len(triangles) - 1)
                    /\ new.parentSide \in Sides
                    /\ focusedTriangleIndex' = Len(triangles)
              /\ \A i \in 1..Len(triangles') : (triangles'[i].parent = Null) <=> (i = 1)
        /\ (running = "manager" /\ Len(manager'.triangles) > Len(manager.triangles)) =>
              /\ Len(manager'.triangles) = Len(manager.triangles) + 1
              /\ LET new == manager'.triangles[Len(manager'.triangles)]
                 IN /\ new.parent \in 0..(Len(manager.triangles) - 1)
                    /\ new.side \in Sides
                    /\ manager'.focusedTriangle = Len(manager.triangles)
              /\ \A i \in 1..Len(manager'.triangles) :
                    (manager'.triangles[i].parent = Null) <=> (i = 1)
      ]_vars

\* C17.  Ids are unique and monotonic: the triangle at insertion position i
\* has id i, so ids strictly increase in insertion order and are never
\* reassigned, and the next id to hand out is the number of triangles, so a
\* rejected creation has consumed no id.
C17_IdsMonotonic ==
    running = "app" =>
       /\ \A i \in AppIndices : triangles[i + 1].id = i
       /\ nextTriangleId = triangleCount
       /\ triangleCount = Len(triangles)

\* A creation has just been rejected on a full mesh.
C17_Witness ==
    /\ running = "app"
    /\ last.op \in CreateOps
    /\ last.ret = Null
    /\ triangleCount = MAX_TRIANGLES
    /\ triangles[MAX_TRIANGLES].id = MAX_TRIANGLES - 1

\* What the dirty flag guards: topology, focus and selection.
MeshData == <<triangles, selectedTriangleIndex, focusedTriangleIndex,
              triangleCount, nextTriangleId>>

\* C18.  Dirty-flag handshake: every step that changes topology, focus or
\* selection leaves the dirty flag set; the flag is cleared only by a render
\* step, which uploads and changes nothing else; and with the render loop
\* running every state with the flag set is eventually followed by a state
\* with the flag cleared.
C18_DirtyHandshake ==
    /\ [][ /\ MeshData' # MeshData => dataChanged'
           /\ (dataChanged /\ ~dataChanged') =>
                 (last'.op = "render" /\ MeshData' = MeshData)
         ]_vars
    /\ (dataChanged ~> ~dataChanged)

\* A frame has uploaded a mesh that key commands had grown and changed.
C18_Witness ==
    /\ running = "app"
    /\ last.op = "render"
    /\ ~dataChanged
    /\ triangleCount >= 2
    /\ focusedTriangleIndex = 0

\* The documented key table (README, Controls): the modifier states it
\* lists and the command each one stands for.
WithCmd     == [NoModifiers EXCEPT !.metaKey = TRUE]
WithShift   == [NoModifiers EXCEPT !.shiftKey = TRUE]
WithAlt     == [NoModifiers EXCEPT !.altKey = TRUE]
WithCtrlAlt == [NoModifiers EXCEPT !.ctrlKey = TRUE, !.altKey = TRUE]
DocumentedModifiers == {NoModifiers, WithCmd, WithShift, WithAlt, WithCtrlAlt}
DocumentedCommand(mods) ==
    CASE mods = NoModifiers -> "navigate"
      [] mods = WithCmd     -> "createAdjacent"
      [] mods = WithShift   -> "toggleSelect"
      [] mods = WithAlt     -> "createInner"
      [] mods = WithCtrlAlt -> "createOuter"

\* C19.  Key dispatch: an arrow press runs exactly the one command its
\* modifiers stand for (none: navigate, Cmd: create adjacent, Shift:
\* selection toggle, Alt: create inner, Ctrl+Alt: create outer), and the
\* command is given the currently focused triangle and an edge index in
\* 0..2.
C19_KeyDispatch ==
    /\ running = "app" =>
          /\ \A mods \in DocumentedModifiers : Dispatch(mods) = DocumentedCommand(mods)
          /\ HandlerIndex(AppState) = focusedTriangleIndex
          /\ Valid(AppState, focusedTriangleIndex)
          /\ \A arrowKey \in ArrowKeys :
                LET sides == getSideByArrowDirection(triangles[focusedTriangleIndex + 1],
                                                     arrowKey)
                IN sides # {} /\ sides \subseteq Sides
    /\ running = "manager" =>
          /\ \A mods \in DocumentedModifiers : MgrDispatch(mods) = DocumentedCommand(mods)
          /\ manager.focusedTriangle \in MgrIndices
          /\ \A arrowKey \in ArrowKeys : getSideFromArrowKey(arrowKey) \in Sides

\* Ctrl+Alt+Arrow has just created an outer triangle on the focused one.
C19_Witness ==
    /\ running = "app"
    /\ last.op = "createOuter"
    /\ last.ret # Null
    /\ triangles[last.ret + 1].parent # Null
    /\ triangles[last.ret + 1].parentSide \in Sides

\* Every neighbor link of the mesh trs is answered by a link back.
Reciprocal(trs) ==
    \A i \in 1..Len(trs), e \in Sides :
       trs[i].neighbors[e] # Null =>
          \E back \in Sides : trs[trs[i].neighbors[e] + 1].neighbors[back] = i - 1

\* C20.  Neighbor links are reciprocal: in every reachable state, if
\* T.neighbor[e] = U then U.neighbor[e'] = T for some edge e' of U, and
\* conversely.
C20_NeighborsReciprocal ==
    /\ running = "app" => Reciprocal(triangles)
    /\ running = "manager" => Reciprocal(manager.triangles)

\* Triangle x of the mesh trs is held in a derivation slot of its parent at
\* the parent edge.
HeldByParent(trs, x, parentEdge) ==
    LET p == trs[trs[x + 1].parent + 1]
    IN \/ p.neighbors[parentEdge] = x
       \/ p.innerTriangles[parentEdge] = x
       \/ p.outerTriangles[parentEdge] = x

\* C21.  Parent and child are linked both ways: every triangle X with a
\* parent P and parent edge e is the triangle held in P.neighbors[e],
\* P.innerTriangles[e] or P.outerTriangles[e]; no later operation has
\* overwritten that slot with another triangle.
C21_ParentHoldsChild ==
    /\ running = "app" =>
          \A x \in AppIndices :
             triangles[x + 1].parent # Null =>
                HeldByParent(triangles, x, triangles[x + 1].parentSide)
    /\ running = "manager" =>
          \A x \in MgrIndices :
             manager.triangles[x + 1].parent # Null =>
                HeldByParent(manager.triangles, x, manager.triangles[x + 1].side)

\* The commands that move the focus cursor or add a triangle.
FocusOps == CreateOps \cup {"navigate"}

\* C22.  Selection is independent of focus: navigate, createAdjacent,
\* createInner and createOuter on the focused triangle change the focus
\* cursor and the topology only and leave the selected set unchanged.
C22_SelectionIndependent ==
    /\ running = "app" =>
          \A op \in FocusOps, e \in Sides :
             SelectedSet(arrowCommand(AppState, HandlerIndex(AppState), e, op).st)
                = SelectedSet(AppState)
    /\ running = "manager" =>
          \A op \in FocusOps, e \in Sides :
             LET after == mgrCommand(manager, op, e).st
             IN /\ SelectedSet(after) = SelectedSet(manager)
                /\ after.selectedTriangles = manager.selectedTriangles

\* Twice the signed area of (a, b, p) in lattice units: positive when p is
\* to the left of the directed edge a -> b, negative to the right, zero on
\* the line.
Cross(a, b, p) == (b[1] - a[1]) * (p[2] - a[2]) - (b[2] - a[2]) * (p[1] - a[1])

\* p and q lie strictly on opposite sides of the line through a and b.
OppositeSides(a, b, p, q) ==
    \/ Cross(a, b, p) > 0 /\ Cross(a, b, q) < 0
    \/ Cross(a, b, p) < 0 /\ Cross(a, b, q) > 0

\* C23.  createOuter projects outward: for every triangle T of the mesh and
\* every edge e in 0..2, the third vertex of the triangle registered by
\* createOuter(T, e) lies on the side of edge e away from T's centroid.
C23_OuterProjectsOutward ==
    /\ running = "app" =>
          \A i \in AppIndices, e \in Sides :
             LET r == createOuterTriangle(AppState, i, e)
                 t == triangles[i + 1]
             IN r.ret # Null =>
                   OppositeSides(t.vertices[e + 1], t.vertices[((e + 1) % 3) + 1],
                                 r.st.triangles[r.ret + 1].vertices[3], t.center)
    /\ running = "manager" =>
          \A i \in MgrIndices, e \in Sides :
             LET r == mgrCreate(manager, "createOuter", i, e)
                 t == manager.triangles[i + 1]
             IN r.ret # Null =>
                   OppositeSides(t.vertices[e + 1], t.vertices[((e + 1) % 3) + 1],
                                 r.st.triangles[r.ret + 1].vertices[3], t.center)

\* C24.  The focused flag never drifts from the cursor: in every state from
\* seed creation on, exactly one triangle has focused = TRUE and it is the
\* triangle the focus cursor designates; in particular the seed's flag is
\* set right after initialisation.
C24_FocusFlagMatchesCursor ==
    /\ running = "app" => FocusedSet(AppState) = {focusedTriangleIndex}
    /\ running = "manager" => FocusedSet(manager) = {manager.focusedTriangle}

\* C25.  The render step is read-only on the mesh: a render / buffer-update
\* step leaves the triangle collection, the triangle count, all vertices,
\* all relationship slots, the focus cursor and the selection unchanged;
\* the only model state it changes is the dirty flag.
C25_RenderReadOnly ==
    running = "app" =>
       LET R == updateTriangleBuffers(AppState)
       IN /\ [R EXCEPT !.dataChanged = dataChanged] = AppState
          /\ R.dataChanged = (dataChanged /\ triangleCount <= 0)
          /\ last.op = "render" => ~dataChanged

\* A frame has uploaded a full mesh with a selected triangle, and mesh,
\* focus and selection are still there.
C25_Witness ==
    /\ running = "app"
    /\ last.op = "render"
    /\ ~dataChanged
    /\ triangleCount = MAX_TRIANGLES
    /\ selectedTriangleIndex = MAX_TRIANGLES - 1
    /\ focusedTriangleIndex = MAX_TRIANGLES - 1
    /\ triangles[MAX_TRIANGLES].selected

\* ------------------------------------- app.js with the uploaded snapshot
\* What updateTriangleBuffers copies into the GL buffers: for each of the
\* first triangleCount triangles, in insertion order, its vertices and its
\* selected value (the colour, which never changes, is left out).
Snapshot(S) ==
    [i \in 1..S.triangleCount |->
        [vertices |-> S.triangles[i].vertices, selected |-> S.triangles[i].selected]]

\* Model bound on the mesh while the uploaded snapshot is kept as history.
UploadMaxTriangles == 2

\* Under SpecUpload the history record carries the last uploaded snapshot.
Uploaded == last.ret

\* initWebGL: nothing uploaded yet.
InitUpload ==
    /\ running = "app"
    /\ LET S == createInitialTriangle(AppGlobals)
       IN /\ triangles = S.triangles
          /\ selectedTriangleIndex = S.selectedTriangleIndex
          /\ focusedTriangleIndex = S.focusedTriangleIndex
          /\ triangleCount = S.triangleCount
          /\ nextTriangleId = S.nextTriangleId
          /\ dataChanged = S.dataChanged
    /\ manager = MgrEmpty
    /\ last = Call("init", <<>>)

\* keydown with an arrow key, the modifiers selecting `command`.
UploadKeyArrow(arrowKey, command) ==
    /\ running = "app"
    /\ Valid(AppState, HandlerIndex(AppState))
    /\ \E side \in getSideByArrowDirection(triangles[HandlerIndex(AppState) + 1], arrowKey) :
          SetApp(arrowCommand(AppState, HandlerIndex(AppState), side, command).st)
    /\ triangleCount' <= UploadMaxTriangles
    /\ last' = Call(command, Uploaded)
    /\ UNCHANGED <<running, manager>>

\* keydown with 't'.
UploadKeyTest ==
    /\ running = "app"
    /\ SetApp(testKey(AppState).st)
    /\ triangleCount' <= UploadMaxTriangles
    /\ last' = Call("testKey", Uploaded)
    /\ UNCHANGED <<running, manager>>

\* An animation frame: the buffers are rewritten when the data has changed.
UploadRender ==
    /\ running = "app"
    /\ SetApp(updateTriangleBuffers(AppState))
    /\ last' = Call("render", IF dataChanged /\ triangleCount > 0
                              THEN Snapshot(AppState) ELSE Uploaded)
    /\ UNCHANGED <<running, manager>>

NextUpload ==
    \/ \E arrowKey \in ArrowKeys, command \in AppCommands : UploadKeyArrow(arrowKey, command)
    \/ UploadKeyTest
    \/ UploadRender

SpecUpload == InitUpload /\ [][NextUpload]_vars

\* C26.  Uploaded snapshot consistency: in every reachable state where the
\* dirty flag is false, the geometry last uploaded by the render step
\* (vertices and selected values, in insertion order) equals the current
\* mesh; no operation has changed vertices, triangle count or a selected
\* flag without setting the dirty flag.
C26_SnapshotConsistent ==
    (running = "app" /\ ~dataChanged) => Uploaded = Snapshot(AppState)

\* A frame has uploaded a mesh of several triangles, one of them selected,
\* and a later key press left the data unchanged.
C26_Witness ==
    /\ running = "app"
    /\ ~dataChanged
    /\ last.op = "navigate"
    /\ Len(Uploaded) >= 2
    /\ \E i \in 1..Len(Uploaded) : Uploaded[i].selected

\* The mesh new extends the mesh old: every triangle of old is still at its
\* position with the same vertices and centroid.
Extends(old, new) ==
    /\ Len(new) >= Len(old)
    /\ \A i \in 1..Len(old) :
          /\ new[i].vertices = old[i].vertices
          /\ new[i].center = old[i].center

\* C27.  The mesh is append-only: across every step the triangle sequence
\* of the new state extends that of the old state, the triangle count never
\* decreases, and the id, vertices and centroid of every triangle already
\* registered are unchanged.
C27_AppendOnly ==
    [][ /\ Extends(triangles, triangles')
        /\ \A i \in 1..Len(triangles) : triangles'[i].id = triangles[i].id
        /\ triangleCount' >= triangleCount
        /\ nextTriangleId' >= nextTriangleId
        /\ Extends(manager.triangles, manager'.triangles)
      ]_vars

\* A full app.js mesh, grown by an inner derivation, still has the seed with
\* its vertices in first position.
C27_Witness ==
    /\ running = "app"
    /\ last.op = "createInner"
    /\ last.ret = MAX_TRIANGLES - 1
    /\ triangles[1].id = 0
    /\ triangles[1].vertices = SeedVertices

\* ------------------------------- findAdjacentSide on pairs of triangles
\* The seed's vertices and the mirror image of its apex in its base: the
\* corners of two equilateral triangles that share an edge.
FindPoints == InputPoints \cup {<<0, 0 - 4 * Scale>>}

\* The Triangle objects the constructor builds on two of these points (it
\* keeps the first two vertices and computes the third).
FindTriangles ==
    UNION { { MgrTriangle(<<p, q, q>>, Null, Null) : q \in FindPoints } : p \in FindPoints }

\* A manager holding two such triangles.
InitFind ==
    /\ running = "manager"
    /\ triangles = AppGlobals.triangles
    /\ selectedTriangleIndex = AppGlobals.selectedTriangleIndex
    /\ focusedTriangleIndex = AppGlobals.focusedTriangleIndex
    /\ triangleCount = AppGlobals.triangleCount
    /\ nextTriangleId = AppGlobals.nextTriangleId
    /\ dataChanged = AppGlobals.dataChanged
    /\ \E a \in FindTriangles, b \in FindTriangles :
          manager = mgrAddTriangle(mgrAddTriangle(MgrEmpty, a), b)
    /\ last = Call("init", 0)

\* findAdjacentSide(triangle1, triangle2) on the two triangles.
CallFind ==
    /\ running = "manager"
    /\ last.op = "init"
    /\ last' = Call("findAdjacentSide",
                    findAdjacentSide(manager.triangles[1], manager.triangles[2]))
    /\ UNCHANGED <<running, appVars, manager>>

SpecFind == InitFind /\ [][CallFind]_vars

\* Vertex v equals (verticesEqual) some vertex of triangle b.
AmongVertices(v, b) == \E j \in 1..3 : verticesEqual(v, b.vertices[j])

\* The edges of a whose two endpoints are both among the vertices of b.
SharedEdges(a, b) ==
    {s \in Sides : /\ AmongVertices(a.vertices[s + 1], b)
                   /\ AmongVertices(a.vertices[((s + 1) % 3) + 1], b)}

\* findAdjacentSide(a, b) is the lowest shared edge of a, or null, and is
\* the same on the bare vertices.
LowestSharedEdge(a, b) ==
    LET s == findAdjacentSide(a, b)
    IN /\ IF SharedEdges(a, b) = {} THEN s = Null
          ELSE s \in SharedEdges(a, b) /\ \A o \in SharedEdges(a, b) : s <= o
       /\ findAdjacentSide([vertices |-> a.vertices], [vertices |-> b.vertices]) = s

\* The three vertices of t are pairwise different under verticesEqual.
DistinctVertices(t) ==
    \A j \in 1..3, k \in 1..3 : j # k => ~verticesEqual(t.vertices[j], t.vertices[k])

SameGeometry(a, b) ==
    /\ \A j \in 1..3 : \E k \in 1..3 : SameVertex(a.vertices[j], b.vertices[k])
    /\ \A k \in 1..3 : \E j \in 1..3 : SameVertex(a.vertices[j], b.vertices[k])

\* C29.  No duplicate geometry: in every state reachable from the seed by
\* derivation commands, no two distinct triangles of the mesh have the same
\* set of three vertices under the vertex-equality tolerance.
C29_NoDuplicateGeometry ==
    /\ running = "app" =>
          \A i \in AppIndices, j \in AppIndices :
             i # j => ~SameGeometry(triangles[i + 1], triangles[j + 1])
    /\ running = "manager" =>
          \A i \in MgrIndices, j \in MgrIndices :
             i # j => ~SameGeometry(manager.triangles[i + 1], manager.triangles[j + 1])

\* ------------------------------------ the manager's selection interface
\* Mesh bound of the specification below.
SelMaxTriangles == 2

\* A key command of the legacy handler, within the mesh bound.
SelKeyArrow(arrowKey, command) ==
    /\ running = "manager"
    /\ manager.focusedTriangle # Null
    /\ LET r == mgrCommand(manager, command, getSideFromArrowKey(arrowKey))
       IN /\ Len(r.st.triangles) <= SelMaxTriangles
          /\ manager' = r.st
          /\ last' = Call(command, r.ret)
    /\ UNCHANGED <<running, appVars>>

\* toggleTriangleSelection(triangle) on a triangle of the mesh.
SelToggle(triangle) ==
    /\ running = "manager"
    /\ triangle \in MgrIndices
    /\ manager' = toggleTriangleSelection(manager, triangle)
    /\ last' = Call("toggleTriangleSelection", triangle)
    /\ UNCHANGED <<running, appVars>>

\* clearSelection(); the history records how many triangles were listed.
SelClear ==
    /\ running = "manager"
    /\ manager' = clearSelection(manager)
    /\ last' = Call("clearSelection", Len(manager.selectedTriangles))
    /\ UNCHANGED <<running, appVars>>

\* setFocusedTriangle(triangle) on a triangle of the mesh.
SelFocus(triangle) ==
    /\ running = "manager"
    /\ triangle \in MgrIndices
    /\ manager' = setFocusedTriangle(manager, triangle)
    /\ last' = Call("setFocusedTriangle", triangle)
    /\ UNCHANGED <<running, appVars>>

NextSelection ==
    \/ \E arrowKey \in ArrowKeys, command \in MgrCommands : SelKeyArrow(arrowKey, command)
    \/ \E triangle \in 0..(SelMaxTriangles - 1) : SelToggle(triangle)
    \/ SelClear
    \/ \E triangle \in 0..(SelMaxTriangles - 1) : SelFocus(triangle)

SpecSelection == InitMgr /\ [][NextSelection]_vars

\* C30.  In the TriangleManager, after any sequence of
\* toggleTriangleSelection, clearSelection and focus changes, a triangle's
\* selected flag is true exactly when it is an element of selectedTriangles,
\* selectedTriangles contains no triangle twice, and every element of
\* selectedTriangles is a triangle of the collection.
C30_SelectionConsistent ==
    running = "manager" =>
       /\ SelectedSet(manager) = ListedSet(manager)
       /\ Cardinality(ListedSet(manager)) = Len(manager.selectedTriangles)
       /\ ListedSet(manager) \subseteq MgrIndices

\* clearSelection has just emptied a list of two triangles: no flag is left.
C30_Witness ==
    /\ running = "manager"
    /\ last.op = "clearSelection"
    /\ last.ret >= 2
    /\ manager.selectedTriangles = <<>>
    /\ SelectedSet(manager) = {}

====
